---- MODULE Spec2Model ----
(***************************************************************************)
(* State-machine model of opsdroid's Slack connector                       *)
(* (opsdroid/connector/slack/connector.py): the webhook ingress handler    *)
(* slack_event_handler and the outbound handlers registered with           *)
(* register_event.                                                         *)
(*                                                                         *)
(* A python dict is a function whose DOMAIN is the dict's key set, so that *)
(* `k in d` is k \in DOMAIN d and d[k] on a missing key is a KeyError.     *)
(* An exception that leaves a coroutine is recorded in the coroutine's     *)
(* result ([kind |-> "raised", ...]); nothing is returned in that case.    *)
(***************************************************************************)
EXTENDS Integers, Sequences, FiniteSets, TLC

(***************************************************************************)
(* Bounds of the model                                                     *)
(***************************************************************************)
\* longest list of events the Event Creator hands back
MaxEvents == 2

\* most segments (words and mentions) of a text given to replace_usernames
MaxSegments == 2

(***************************************************************************)
(* JSON values and inbound requests                                        *)
(***************************************************************************)
\* the python dict {}
EmptyDict == [k \in {} |-> ""]

\* dict d with key k set to v (d[k] = v)
DictSet(d, k, v) == [x \in DOMAIN d \cup {k} |-> IF x = k THEN v ELSE d[x]]

\* values of the "type" discriminant that Slack may send; the last one is
\* a type the handler does not implement
PayloadTypes ==
    {"url_verification", "event_callback", "block_actions", "message_action",
     "view_submission", "view_closed", "app_rate_limited"}

Challenges == {"abc", "xyz"}

EventBodies == {"message_body"}

\* the JSON objects a request can carry: any subset of the keys the handler
\* reads, each with a value of its kind
JsonObjects ==
    LET Keys == {"type", "challenge", "event"}
        Vals(k) == CASE k = "type" -> PayloadTypes
                     [] k = "challenge" -> Challenges
                     [] k = "event" -> EventBodies
    IN  UNION { {f \in [D -> PayloadTypes \cup Challenges \cup EventBodies] :
                    \A k \in D : f[k] \in Vals(k)} : D \in SUBSET Keys }

\* A decoded JSON value.  kind "object": a dict.  kind "scalar": null, a
\* number or a boolean (`"type" in value` is a TypeError).  kind "array":
\* a JSON array or string; hasType tells whether `"type" in value` holds
\* (value["type"] is a TypeError for both).
JsonValues ==
    [kind : {"object"}, obj : JsonObjects, hasType : {FALSE}]
        \cup [kind : {"scalar"}, obj : {EmptyDict}, hasType : {FALSE}]
        \cup [kind : {"array"}, obj : {EmptyDict}, hasType : BOOLEAN]

EmptyPayload == [kind |-> "object", obj |-> EmptyDict, hasType |-> FALSE]

\* A JSON text: well formed (decodes to value) or not
JsonTexts ==
    [wellformed : {TRUE}, value : JsonValues]
        \cup [wellformed : {FALSE}, value : {EmptyPayload}]

ContentTypes ==
    {"application/x-www-form-urlencoded", "application/json", "text/plain"}

\* An inbound request: its content type; for a form, whether the form has a
\* "payload" field and the text of that field; for JSON, the body text.
Requests ==
    [content_type : {"application/x-www-form-urlencoded"},
     hasPayloadField : {TRUE}, text : JsonTexts]
        \cup [content_type : {"application/x-www-form-urlencoded"},
              hasPayloadField : {FALSE},
              text : {[wellformed |-> FALSE, value |-> EmptyPayload]}]
        \cup [content_type : {"application/json"},
              hasPayloadField : {FALSE}, text : JsonTexts]
        \cup [content_type : {"text/plain"},
              hasPayloadField : {FALSE},
              text : {[wellformed |-> FALSE, value |-> EmptyPayload]}]

NoRequest ==
    [content_type |-> "", hasPayloadField |-> FALSE,
     text |-> [wellformed |-> FALSE, value |-> EmptyPayload]]

\* json.loads / request.json(): the decoded value, or a decode error
JsonLoads(text) ==
    IF text.wellformed
    THEN [ok |-> TRUE, value |-> text.value, error |-> ""]
    ELSE [ok |-> FALSE, value |-> EmptyPayload, error |-> "JSONDecodeError"]

(***************************************************************************)
(* Events of the host and results of the Event Creator                     *)
(***************************************************************************)
Events == {"e1", "e2"}

NoneValue == [kind |-> "none", id |-> "", items |-> <<>>]

OneEvent(e) == [kind |-> "event", id |-> e, items |-> <<>>]

ListOf(s) == [kind |-> "list", id |-> "", items |-> s]

EventLists == UNION {[1..n -> Events] : n \in 0..MaxEvents}

\* what create_event may return: None, one Event, or a list of Events
CreatorResults ==
    {NoneValue} \cup {OneEvent(e) : e \in Events}
        \cup {ListOf(s) : s \in EventLists}

(***************************************************************************)
(* State                                                                   *)
(***************************************************************************)
VARIABLES
    \* ConnectorSlack fields (__init__)
    default_target, icon_emoji, start_thread, bot_name,
    auth_info, user_info, bot_id, known_users,
    \* one run of slack_event_handler: its position, its argument and its
    \* locals (payload, event, the position of the for loop)
    hpc, request, payload, event, idx,
    \* the calls the run has made to _event_creator.create_event and to
    \* opsdroid.parse, in order, and what the run returned or raised
    createCalls, parseCalls, response,
    \* one run of send(event): its position, the event sent, the platform
    \* calls made so far, what the last call raised (if it did), and what
    \* the run returned or raised
    spc, sendEvent, apiCalls, apiError, sendResult,
    \* the runs of lookup_username, one per caller: position, argument,
    \* whether the run called users_info, what users_info gave it, and what
    \* the run returned or raised
    lpc, luser, lnet, lfetched, lresult,
    \* the users_info calls each run has made: the user argument of each
    lcalls,
    \* history of the Identity Cache: the value last written under each
    \* identifier, and the identifiers for which a lookup has returned a
    \* profile record
    lastWrite, resolved,
    \* one run of replace_usernames: its position, the text it was given
    \* (as segments), its locals message and userids, the position of its
    \* for loop, the identifiers it has looked up, whether one of its
    \* lookups raised, and what the run returned or raised
    rpc, rsegs, rmessage, userids, ridx, rlookups, rfailed, rresult,
    \* connect: the position of the running call, what the last call
    \* returned or raised, the routes registered on the web server's router,
    \* whether a connect() has completed successfully, how many connect()
    \* calls were started, and the steps the running (or last) call has
    \* taken, in the order it took them
    cpc, connectResult, routes, connected, connects, connectLog

connVars ==
    <<default_target, icon_emoji, start_thread, bot_name,
      auth_info, user_info, bot_id, known_users>>

ingressVars ==
    <<hpc, request, payload, event, idx, createCalls, parseCalls, response>>

sendVars == <<spc, sendEvent, apiCalls, apiError, sendResult>>

\* the connector fields other than the Identity Cache
configVars ==
    <<default_target, icon_emoji, start_thread, bot_name,
      auth_info, user_info, bot_id>>

lookupVars ==
    <<lpc, luser, lnet, lfetched, lresult, lcalls, lastWrite, resolved>>

replaceVars ==
    <<rpc, rsegs, rmessage, userids, ridx, rlookups, rfailed, rresult>>

connectVars ==
    <<cpc, connectResult, routes, connected, connects, connectLog>>

vars ==
    <<connVars, ingressVars, sendVars, lookupVars, replaceVars, connectVars>>

(***************************************************************************)
(* slack_event_handler                                                     *)
(***************************************************************************)
\* a response body: a JSON object (its dict), a JSON string (its text)
NoBody == [json |-> "none", obj |-> EmptyDict, text |-> ""]

NoResponse == [kind |-> "none", status |-> 0, body |-> NoBody, error |-> ""]

\* an exception leaves the handler: no response object is returned
Raised(err) ==
    [kind |-> "raised", status |-> 0, body |-> NoBody, error |-> err]

\* aiohttp.web.json_response({"challenge": payload["challenge"]})
ChallengeResponse(p) ==
    [kind |-> "returned", status |-> 200,
     body |-> [json |-> "object",
               obj |-> [challenge |-> p.obj["challenge"]], text |-> ""],
     error |-> ""]

\* aiohttp.web.Response(text=json.dumps("Received"), status=200)
Acknowledgement ==
    [kind |-> "returned", status |-> 200,
     body |-> [json |-> "string", obj |-> EmptyDict, text |-> "Received"],
     error |-> ""]

InteractiveTypes ==
    {"block_actions", "message_action", "view_submission", "view_closed"}

\* PayloadBranch without the early return for url_verification: the
\* challenge payload goes on to the Event Creator
PayloadBranchChallengeForwarded(p) ==
    CASE p.kind = "scalar" -> "type_error"
      [] p.kind = "array" -> IF p.hasType THEN "type_error" ELSE "no_type"
      [] OTHER ->
            IF "type" \notin DOMAIN p.obj THEN "no_type"
            ELSE IF p.obj["type"] = "event_callback" THEN "event_callback"
            ELSE IF p.obj["type"] \in InteractiveTypes \cup {"url_verification"}
                 THEN "interactive"
            ELSE "not_implemented"

\* PayloadBranch with a final else that hands the payload to the Event
\* Creator instead of logging it
PayloadBranchUnknownForwarded(p) ==
    CASE p.kind = "scalar" -> "type_error"
      [] p.kind = "array" -> IF p.hasType THEN "type_error" ELSE "no_type"
      [] OTHER ->
            IF "type" \notin DOMAIN p.obj THEN "no_type"
            ELSE IF p.obj["type"] = "url_verification" THEN "url_verification"
            ELSE IF p.obj["type"] = "event_callback" THEN "event_callback"
            ELSE "interactive"

\* the branch the if/elif chain on payload["type"] takes
PayloadBranch(p) ==
    CASE p.kind = "scalar" -> "type_error"
      [] p.kind = "array" -> IF p.hasType THEN "type_error" ELSE "no_type"
      [] OTHER ->
            IF "type" \notin DOMAIN p.obj THEN "no_type"
            ELSE IF p.obj["type"] = "url_verification" THEN "url_verification"
            ELSE IF p.obj["type"] = "event_callback" THEN "event_callback"
            ELSE IF p.obj["type"] \in InteractiveTypes THEN "interactive"
            ELSE "not_implemented"

\* the argument of a create_event call: payload["event"] or the payload
CreateArg(what, p) ==
    [what |-> what,
     body |-> IF what = "payload.event" THEN p.obj["event"] ELSE "",
     whole |-> IF what = "payload" THEN p.obj ELSE EmptyDict]

\* the argument of the opsdroid.parse call in the i-th turn of
\* `for e in event`
ListParseArgument(ev, i) == ev

\* the number of opsdroid.parse calls the handler makes for an event value
ParseCount(ev) ==
    CASE ev.kind = "list" -> Len(ev.items)
      [] ev.kind = "event" -> 1
      [] OTHER -> 0

\* the handler is called with a request; event = None, payload = {}
Receive ==
    /\ hpc = "idle"
    /\ \E r \in Requests : request' = r
    /\ hpc' = "read"
    /\ payload' = EmptyPayload
    /\ event' = NoneValue
    /\ idx' = 1
    /\ createCalls' = <<>>
    /\ parseCalls' = <<>>
    /\ response' = NoResponse
    /\ UNCHANGED <<connVars, sendVars, lookupVars, replaceVars, connectVars>>

\* decoding the body by content type
ReadBody ==
    /\ hpc = "read"
    /\ IF request.content_type = "application/x-www-form-urlencoded"
       THEN IF ~request.hasPayloadField
            THEN /\ hpc' = "done"
                 /\ response' = Raised("KeyError")
                 /\ UNCHANGED payload
            ELSE IF JsonLoads(request.text).ok
                 THEN /\ hpc' = "classify"
                      /\ payload' = JsonLoads(request.text).value
                      /\ UNCHANGED response
                 ELSE /\ hpc' = "done"
                      /\ response' = Raised(JsonLoads(request.text).error)
                      /\ UNCHANGED payload
       ELSE IF request.content_type = "application/json"
            THEN IF JsonLoads(request.text).ok
                 THEN /\ hpc' = "classify"
                      /\ payload' = JsonLoads(request.text).value
                      /\ UNCHANGED response
                 ELSE /\ hpc' = "done"
                      /\ response' = Raised(JsonLoads(request.text).error)
                      /\ UNCHANGED payload
            ELSE /\ hpc' = "classify"
                 /\ UNCHANGED <<payload, response>>
    /\ UNCHANGED <<request, event, idx, createCalls, parseCalls>>
    /\ UNCHANGED <<connVars, sendVars, lookupVars, replaceVars, connectVars>>

\* the if/elif chain on the payload's type, up to the await of create_event
Classify ==
    /\ hpc = "classify"
    /\ LET b == PayloadBranch(payload) IN
       CASE b = "type_error" ->
                /\ hpc' = "done"
                /\ response' = Raised("TypeError")
                /\ UNCHANGED createCalls
         [] b = "url_verification" ->
                /\ hpc' = "done"
                /\ response' = IF "challenge" \in DOMAIN payload.obj
                               THEN ChallengeResponse(payload)
                               ELSE Raised("KeyError")
                /\ UNCHANGED createCalls
         [] b = "event_callback" ->
                IF "event" \in DOMAIN payload.obj
                THEN /\ hpc' = "creating"
                     /\ createCalls' =
                            Append(createCalls,
                                   CreateArg("payload.event", payload))
                     /\ UNCHANGED response
                ELSE /\ hpc' = "done"
                     /\ response' = Raised("KeyError")
                     /\ UNCHANGED createCalls
         [] b = "interactive" ->
                /\ hpc' = "creating"
                /\ createCalls' =
                       Append(createCalls, CreateArg("payload", payload))
                /\ UNCHANGED response
         [] OTHER ->
                /\ hpc' = "forward"
                /\ UNCHANGED <<createCalls, response>>
    /\ UNCHANGED <<request, payload, event, idx, parseCalls>>
    /\ UNCHANGED <<connVars, sendVars, lookupVars, replaceVars, connectVars>>

\* create_event returns None, an Event or a list of Events
CreateReturn ==
    /\ hpc = "creating"
    /\ \E r \in CreatorResults : event' = r
    /\ hpc' = "forward"
    /\ UNCHANGED <<request, payload, idx, createCalls, parseCalls, response>>
    /\ UNCHANGED <<connVars, sendVars, lookupVars, replaceVars, connectVars>>

\* create_event raises
CreateRaise ==
    /\ hpc = "creating"
    /\ hpc' = "done"
    /\ response' = Raised("CreateEventError")
    /\ UNCHANGED <<request, payload, event, idx, createCalls, parseCalls>>
    /\ UNCHANGED <<connVars, sendVars, lookupVars, replaceVars, connectVars>>

\* the two isinstance blocks: the next opsdroid.parse call
Forward ==
    /\ hpc = "forward"
    /\ idx <= ParseCount(event)
    /\ parseCalls' =
           Append(parseCalls,
                  IF event.kind = "list"
                  THEN ListParseArgument(event, idx)
                  ELSE event)
    /\ hpc' = "parsing"
    /\ UNCHANGED <<request, payload, event, idx, createCalls, response>>
    /\ UNCHANGED <<connVars, sendVars, lookupVars, replaceVars, connectVars>>

\* the awaited opsdroid.parse call returns
ParseReturn ==
    /\ hpc = "parsing"
    /\ hpc' = "forward"
    /\ idx' = idx + 1
    /\ UNCHANGED <<request, payload, event, createCalls, parseCalls, response>>
    /\ UNCHANGED <<connVars, sendVars, lookupVars, replaceVars, connectVars>>

\* the awaited opsdroid.parse call raises
ParseRaise ==
    /\ hpc = "parsing"
    /\ hpc' = "done"
    /\ response' = Raised("ParseError")
    /\ UNCHANGED <<request, payload, event, idx, createCalls, parseCalls>>
    /\ UNCHANGED <<connVars, sendVars, lookupVars, replaceVars, connectVars>>

\* nothing is left to forward: the final return
Acknowledge ==
    /\ hpc = "forward"
    /\ idx > ParseCount(event)
    /\ hpc' = "done"
    /\ response' = Acknowledgement
    /\ UNCHANGED <<request, payload, event, idx, createCalls, parseCalls>>
    /\ UNCHANGED <<connVars, sendVars, lookupVars, replaceVars, connectVars>>

\* the run is over; the handler is ready for the next request
HandlerExit ==
    /\ hpc = "done"
    /\ hpc' = "idle"
    /\ request' = NoRequest
    /\ payload' = EmptyPayload
    /\ event' = NoneValue
    /\ idx' = 1
    /\ createCalls' = <<>>
    /\ parseCalls' = <<>>
    /\ response' = NoResponse
    /\ UNCHANGED <<connVars, sendVars, lookupVars, replaceVars, connectVars>>

(***************************************************************************)
(* Outgoing events                                                         *)
(***************************************************************************)
\* message timestamps (event ids and thread markers); NoneId is python None
Timestamps == {"t1", "t2"}

NoneId == "None"

\* raw_event of an event: None, or a dict that may carry "thread_ts"
NoRawEvent == [isDict |-> FALSE, dict |-> EmptyDict]

RawEvents ==
    {NoRawEvent}
        \cup {[isDict |-> TRUE, dict |-> EmptyDict]}
        \cup {[isDict |-> TRUE, dict |-> [thread_ts |-> t]] : t \in Timestamps}

\* linked_event of an outgoing event: None, an Event (event_id, raw_event),
\* or a bare timestamp (the edit events carry the timestamp itself)
NoLinkedEvent == [kind |-> "none", event_id |-> NoneId, raw_event |-> NoRawEvent]

LinkedEvents ==
    [kind : {"event"}, event_id : Timestamps \cup {NoneId},
     raw_event : RawEvents]

LinkedTimestamp(t) ==
    [kind |-> "ts", event_id |-> t, raw_event |-> NoRawEvent]

\* an emoji is a text, kept as its sequence of tokens: a Unicode glyph, a
\* colon, or a run of other characters
Emojis == {<<"U+1F600">>, <<"NOT_EMOJI">>}

NoEmoji == <<>>

Variants ==
    {"Message", "EditedMessage", "Blocks", "EditedBlocks", "Reaction",
     "NewRoom", "RoomName", "JoinRoom", "UserInvite", "RoomDescription",
     "PinMessage", "UnpinMessage"}

OutEvent(v, linked, emoji) ==
    [variant |-> v, target |-> "room", text |-> "test", name |-> "new_room",
     user_id |-> "U2345678901", description |-> "Topic Update",
     blocks |-> "blocks_json", linked_event |-> linked, emoji |-> emoji]

\* the events application code sends: a Message with any linked event or
\* none; an edit with the timestamp it edits; a Reaction, PinMessage or
\* UnpinMessage with the Event it refers to; the room events
OutEvents ==
    {OutEvent("Message", l, NoEmoji) : l \in LinkedEvents \cup {NoLinkedEvent}}
        \cup {OutEvent(v, LinkedTimestamp(t), NoEmoji) :
                v \in {"EditedMessage", "EditedBlocks"}, t \in {"t1"}}
        \cup {OutEvent("Reaction", l, e) :
                l \in {x \in LinkedEvents : x.event_id = "t1"
                                            /\ x.raw_event.dict = EmptyDict
                                            /\ x.raw_event.isDict},
                e \in Emojis}
        \cup {OutEvent(v, l, NoEmoji) :
                v \in {"PinMessage", "UnpinMessage"},
                l \in {x \in LinkedEvents : x.event_id = "t1"
                                            /\ x.raw_event = NoRawEvent}}
        \cup {OutEvent(v, NoLinkedEvent, NoEmoji) :
                v \in {"Blocks", "NewRoom", "RoomName", "JoinRoom",
                       "UserInvite", "RoomDescription"}}

NoOutEvent == OutEvent("", NoLinkedEvent, NoEmoji)

(***************************************************************************)
(* Outbound handlers (register_event)                                      *)
(***************************************************************************)
\* ThreadTs with the two tests swapped: the thread-start policy is looked
\* at before the linked event's own thread marker
ThreadTsPolicyFirst(linked, startThread) ==
    IF linked.kind = "none"
    THEN [error |-> FALSE, set |-> FALSE, value |-> ""]
    ELSE IF startThread
    THEN [error |-> FALSE, set |-> TRUE, value |-> linked.event_id]
    ELSE IF ~linked.raw_event.isDict
    THEN [error |-> TRUE, set |-> FALSE, value |-> ""]
    ELSE IF "thread_ts" \in DOMAIN linked.raw_event.dict
            /\ linked.event_id # linked.raw_event.dict["thread_ts"]
    THEN [error |-> FALSE, set |-> TRUE,
          value |-> linked.raw_event.dict["thread_ts"]]
    ELSE [error |-> FALSE, set |-> FALSE, value |-> ""]

\* ThreadTs with a plain else in place of `elif self.start_thread`: a
\* thread is started whatever the policy is
ThreadTsAlwaysStart(linked, startThread) ==
    IF linked.kind = "none"
    THEN [error |-> FALSE, set |-> FALSE, value |-> ""]
    ELSE IF ~linked.raw_event.isDict
    THEN [error |-> TRUE, set |-> FALSE, value |-> ""]
    ELSE IF "thread_ts" \in DOMAIN linked.raw_event.dict
    THEN IF linked.event_id # linked.raw_event.dict["thread_ts"]
         THEN [error |-> FALSE, set |-> TRUE,
               value |-> linked.raw_event.dict["thread_ts"]]
         ELSE [error |-> FALSE, set |-> FALSE, value |-> ""]
    ELSE [error |-> FALSE, set |-> TRUE, value |-> linked.event_id]

\* The thread marker _send_message puts into the call: whether the lookup
\* of "thread_ts" in raw_event fails (raw_event is None), whether
\* data["thread_ts"] is set, and its value.
ThreadTs(linked, startThread) ==
    IF linked.kind = "none"
    THEN [error |-> FALSE, set |-> FALSE, value |-> ""]
    ELSE IF ~linked.raw_event.isDict
    THEN [error |-> TRUE, set |-> FALSE, value |-> ""]
    ELSE IF "thread_ts" \in DOMAIN linked.raw_event.dict
    THEN IF linked.event_id # linked.raw_event.dict["thread_ts"]
         THEN [error |-> FALSE, set |-> TRUE,
               value |-> linked.raw_event.dict["thread_ts"]]
         ELSE [error |-> FALSE, set |-> FALSE, value |-> ""]
    ELSE IF startThread
    THEN [error |-> FALSE, set |-> TRUE, value |-> linked.event_id]
    ELSE [error |-> FALSE, set |-> FALSE, value |-> ""]

\* demojize: every Unicode glyph becomes its :short_code:
RECURSIVE Demojize(_)
Demojize(s) ==
    IF s = <<>> THEN <<>>
    ELSE (IF Head(s) = "U+1F600"
          THEN <<":", "grinning_face", ":">>
          ELSE <<Head(s)>>) \o Demojize(Tail(s))

\* str.replace(":", "")
IsNotColon(tok) == tok # ":"

StripColons(s) == SelectSeq(s, IsNotColon)

ApiCall(op, data) == [op |-> op, data |-> data]

\* the register_event decorators of the class, in source order: the event
\* class each names and the method it decorates
Registry ==
    << [variant |-> "Message", handler |-> "_send_message"],
       [variant |-> "EditedMessage", handler |-> "_edit_message"],
       [variant |-> "Blocks", handler |-> "_send_blocks"],
       [variant |-> "EditedBlocks", handler |-> "_edit_blocks"],
       [variant |-> "Reaction", handler |-> "send_reaction"],
       [variant |-> "NewRoom", handler |-> "_send_room_creation"],
       [variant |-> "RoomName", handler |-> "_send_room_name_set"],
       [variant |-> "JoinRoom", handler |-> "_send_join_room"],
       [variant |-> "UserInvite", handler |-> "_send_user_invitation"],
       [variant |-> "RoomDescription", handler |-> "_send_room_description"],
       [variant |-> "PinMessage", handler |-> "_send_pin_message"],
       [variant |-> "UnpinMessage", handler |-> "_send_unpin_message"] >>

\* the handlers registered for a variant
HandlersFor(variant) ==
    {Registry[i].handler : i \in {j \in 1..Len(Registry) :
                                      Registry[j].variant = variant}}

\* the platform operation each registered handler calls
Operation(variant) ==
    CASE variant = "Message" -> "chat.postMessage"
      [] variant = "EditedMessage" -> "chat.update"
      [] variant = "Blocks" -> "chat.postMessage"
      [] variant = "EditedBlocks" -> "chat.update"
      [] variant = "Reaction" -> "reactions.add"
      [] variant = "NewRoom" -> "conversations.create"
      [] variant = "RoomName" -> "conversations.rename"
      [] variant = "JoinRoom" -> "conversations.join"
      [] variant = "UserInvite" -> "conversations.invite"
      [] variant = "RoomDescription" -> "conversations.setTopic"
      [] variant = "PinMessage" -> "pins.add"
      [] variant = "UnpinMessage" -> "pins.remove"

\* the data dict of _send_message
SendMessageData(message) ==
    LET data == [channel |-> message.target, text |-> message.text,
                 username |-> bot_name, icon_emoji |-> icon_emoji]
        t == ThreadTs(message.linked_event, start_thread)
    IN  IF t.set THEN DictSet(data, "thread_ts", t.value) ELSE data

\* the data dict each handler passes to api_call
CallData(ev) ==
    CASE ev.variant = "Message" -> SendMessageData(ev)
      [] ev.variant = "EditedMessage" ->
            [channel |-> ev.target, ts |-> ev.linked_event.event_id,
             text |-> ev.text]
      [] ev.variant = "Blocks" ->
            [channel |-> ev.target, username |-> bot_name,
             blocks |-> ev.blocks, icon_emoji |-> icon_emoji]
      [] ev.variant = "EditedBlocks" ->
            [channel |-> ev.target, ts |-> ev.linked_event.event_id,
             blocks |-> ev.blocks]
      [] ev.variant = "Reaction" ->
            [name |-> StripColons(Demojize(ev.emoji)), channel |-> ev.target,
             timestamp |-> ev.linked_event.event_id]
      [] ev.variant = "NewRoom" -> [name |-> ev.name]
      [] ev.variant = "RoomName" -> [channel |-> ev.target, name |-> ev.name]
      [] ev.variant = "JoinRoom" -> [channel |-> ev.target]
      [] ev.variant = "UserInvite" ->
            [channel |-> ev.target, users |-> ev.user_id]
      [] ev.variant = "RoomDescription" ->
            [channel |-> ev.target, topic |-> ev.description]
      [] ev.variant \in {"PinMessage", "UnpinMessage"} ->
            [channel |-> ev.target, timestamp |-> ev.linked_event.event_id]

\* building the call fails before any platform call is made
BuildFails(ev) ==
    ev.variant = "Message" /\ ThreadTs(ev.linked_event, start_thread).error

\* what api_call can raise: SlackApiError for an unsuccessful response
\* (with the response's "error", if it has one), or a transport error
SlackErrorCodes == {"invalid_name", "already_reacted", "no_error_field"}

ApiErrors ==
    [class : {"SlackApiError"}, code : SlackErrorCodes]
        \cup [class : {"ClientError"}, code : {"connection_reset"}]

NoError == [class |-> "", code |-> ""]

\* str(error): the message of the exception, as its sequence of tokens
StrError(err) ==
    IF err.code = "no_error_field"
    THEN <<"The request to the Slack API failed.",
           "The server responded with:", "ok", "False">>
    ELSE <<"The request to the Slack API failed.",
           "The server responded with:", "ok", "False", "error", err.code>>

\* "invalid_name" in str(error)
InvalidNameIn(str) == \E i \in 1..Len(str) : str[i] = "invalid_name"

NoSendResult == [kind |-> "none", value |-> "", error |-> NoError]

Returned(v) == [kind |-> "returned", value |-> v, error |-> NoError]

SendRaised(err) == [kind |-> "raised", value |-> "", error |-> err]

\* the except clause of send_reaction without its else: raise
SendReactionExceptSwallowAll(err) ==
    IF err.class = "SlackApiError"
    THEN Returned("None")
    ELSE SendRaised(err)

\* the except clause of send_reaction
SendReactionExcept(err) ==
    IF err.class = "SlackApiError"
    THEN IF InvalidNameIn(StrError(err))
         THEN Returned("None")
         ELSE SendRaised(err)
    ELSE SendRaised(err)

\* OnApiError with the except clause of send_reaction around every
\* handler's call
OnApiErrorExceptEverywhere(variant, err) == SendReactionExcept(err)

\* what a handler does when its api_call raises err
OnApiError(variant, err) ==
    IF variant = "Reaction" THEN SendReactionExcept(err) ELSE SendRaised(err)

\* send(event): the handler registered for the event's variant runs up to
\* its await of api_call
Send ==
    /\ spc = "idle"
    /\ \E ev \in OutEvents :
        /\ sendEvent' = ev
        /\ IF BuildFails(ev)
           THEN /\ spc' = "done"
                /\ apiCalls' = <<>>
                /\ sendResult' =
                       SendRaised([class |-> "TypeError", code |-> ""])
           ELSE /\ spc' = "awaiting"
                /\ apiCalls' = <<ApiCall(Operation(ev.variant), CallData(ev))>>
                /\ sendResult' = NoSendResult
    /\ apiError' = NoError
    /\ UNCHANGED <<connVars, ingressVars, lookupVars, replaceVars, connectVars>>

\* ApiReturn of a handler that keeps the room it last wrote to as the
\* connector's default target
ApiReturnKeepingTarget ==
    /\ spc = "awaiting"
    /\ spc' = "done"
    /\ sendResult' = Returned("response")
    /\ default_target' = sendEvent.target
    /\ UNCHANGED <<sendEvent, apiCalls, apiError>>
    /\ UNCHANGED <<icon_emoji, start_thread, bot_name, auth_info, user_info,
                   bot_id, known_users>>
    /\ UNCHANGED <<ingressVars, lookupVars, replaceVars, connectVars>>

\* the platform answers ok: the handler returns the raw response
ApiReturn ==
    /\ spc = "awaiting"
    /\ spc' = "done"
    /\ sendResult' = Returned("response")
    /\ UNCHANGED <<sendEvent, apiCalls, apiError>>
    /\ UNCHANGED <<connVars, ingressVars, lookupVars, replaceVars, connectVars>>

\* api_call raises
ApiRaise ==
    /\ spc = "awaiting"
    /\ \E err \in ApiErrors :
        /\ apiError' = err
        /\ sendResult' = OnApiError(sendEvent.variant, err)
    /\ spc' = "done"
    /\ UNCHANGED <<sendEvent, apiCalls>>
    /\ UNCHANGED <<connVars, ingressVars, lookupVars, replaceVars, connectVars>>

\* the run is over
SendExit ==
    /\ spc = "done"
    /\ spc' = "idle"
    /\ sendEvent' = NoOutEvent
    /\ apiCalls' = <<>>
    /\ apiError' = NoError
    /\ sendResult' = NoSendResult
    /\ UNCHANGED <<connVars, ingressVars, lookupVars, replaceVars, connectVars>>

(***************************************************************************)
(* lookup_username                                                         *)
(***************************************************************************)
UserIds == {"U1", "U2"}

\* the display names users.info may report for a user (a user can be
\* renamed on the platform between two lookups)
Names(u) == IF u = "U1" THEN {"Test User", "Renamed User"} ELSE {"Other User"}

\* the profile records of a user: with a "name", or without one
Profiles(u) == {[id |-> u, name |-> n] : n \in Names(u)} \cup {[id |-> u]}

\* a value of response.data["user"]: a dict, or something that is no dict
UserInfo(d) == [isDict |-> TRUE, dict |-> d]

NotADict == [isDict |-> FALSE, dict |-> EmptyDict]

UsersInfoResults(u) == {UserInfo(d) : d \in Profiles(u)} \cup {NotADict}

\* what the miss branch can raise: SlackApiError from users_info, KeyError
\* from response.data["user"]
LookupErrors == {"SlackApiError", "KeyError"}

\* the coroutines that run lookup_username: two direct callers, and the
\* one that runs replace_usernames
Callers == {"L1", "L2"}

Procs == Callers \cup {"R"}

NoLookupResult == [kind |-> "none", value |-> NotADict, error |-> ""]

LookupReturned(v) == [kind |-> "returned", value |-> v, error |-> ""]

LookupRaised(err) == [kind |-> "raised", value |-> NotADict, error |-> err]

\* CacheStore that writes only if the identifier is absent
CacheStoreIfAbsent(cache, userid, info) ==
    IF info.isDict /\ userid \notin DOMAIN cache
    THEN DictSet(cache, userid, info)
    ELSE cache

\* CacheStore that keeps the newest entry only
CacheStoreEvicting(cache, userid, info) ==
    IF info.isDict THEN DictSet(EmptyDict, userid, info) ELSE cache

\* CacheStore without the write
CacheStoreNothing(cache, userid, info) == cache

\* CacheStore without the isinstance test
CacheStoreUnchecked(cache, userid, info) == DictSet(cache, userid, info)

\* if isinstance(user_info, dict): self.known_users[userid] = user_info
CacheStore(cache, userid, info) ==
    IF info.isDict THEN DictSet(cache, userid, info) ELSE cache

\* lookup_username(userid) up to its await: the cache test, and on a hit the
\* return; on a miss the users_info call is made
LookupBegin(p, u) ==
    /\ lpc[p] = "idle"
    /\ luser' = [luser EXCEPT ![p] = u]
    /\ IF u \in DOMAIN known_users
       THEN /\ lpc' = [lpc EXCEPT ![p] = "done"]
            /\ lnet' = [lnet EXCEPT ![p] = FALSE]
            /\ lcalls' = [lcalls EXCEPT ![p] = <<>>]
            /\ lresult' = [lresult EXCEPT ![p] = LookupReturned(known_users[u])]
       ELSE /\ lpc' = [lpc EXCEPT ![p] = "awaiting"]
            /\ lnet' = [lnet EXCEPT ![p] = TRUE]
            /\ lcalls' = [lcalls EXCEPT ![p] = <<u>>]
            /\ lresult' = [lresult EXCEPT ![p] = NoLookupResult]
    /\ lfetched' = [lfetched EXCEPT ![p] = NotADict]
    /\ UNCHANGED <<known_users, lastWrite, resolved>>

\* users_info returns: the result is cached if it is a dict, and returned
UsersInfoReturn(p) ==
    /\ lpc[p] = "awaiting"
    /\ \E r \in UsersInfoResults(luser[p]) :
        /\ known_users' = CacheStore(known_users, luser[p], r)
        /\ lfetched' = [lfetched EXCEPT ![p] = r]
        /\ lresult' = [lresult EXCEPT ![p] = LookupReturned(r)]
        /\ lastWrite' = IF r.isDict
                        THEN DictSet(lastWrite, luser[p], r)
                        ELSE lastWrite
        /\ resolved' = IF r.isDict THEN resolved \cup {luser[p]} ELSE resolved
    /\ lpc' = [lpc EXCEPT ![p] = "done"]
    /\ UNCHANGED <<luser, lnet, lcalls>>

\* users_info raises, or its response has no "user"
UsersInfoRaise(p) ==
    /\ lpc[p] = "awaiting"
    /\ \E err \in LookupErrors :
        lresult' = [lresult EXCEPT ![p] = LookupRaised(err)]
    /\ lpc' = [lpc EXCEPT ![p] = "done"]
    /\ UNCHANGED <<known_users, luser, lnet, lfetched, lcalls, lastWrite,
                   resolved>>

\* the run of p is over
LookupReset(p) ==
    /\ lpc' = [lpc EXCEPT ![p] = "idle"]
    /\ luser' = [luser EXCEPT ![p] = ""]
    /\ lnet' = [lnet EXCEPT ![p] = FALSE]
    /\ lfetched' = [lfetched EXCEPT ![p] = NotADict]
    /\ lresult' = [lresult EXCEPT ![p] = NoLookupResult]
    /\ lcalls' = [lcalls EXCEPT ![p] = <<>>]
    /\ UNCHANGED <<known_users, lastWrite, resolved>>

\* a caller calls lookup_username
Lookup ==
    /\ \E p \in Callers, u \in UserIds : LookupBegin(p, u)
    /\ UNCHANGED <<configVars, ingressVars, sendVars, replaceVars, connectVars>>

\* the users_info call of a caller returns
LookupUsersInfoReturn ==
    /\ \E p \in Callers : UsersInfoReturn(p)
    /\ UNCHANGED <<configVars, ingressVars, sendVars, replaceVars, connectVars>>

\* the users_info call of a caller raises
LookupUsersInfoRaise ==
    /\ \E p \in Callers : UsersInfoRaise(p)
    /\ UNCHANGED <<configVars, ingressVars, sendVars, replaceVars, connectVars>>

\* a caller has its result
LookupExit ==
    /\ \E p \in Callers : lpc[p] = "done" /\ LookupReset(p)
    /\ UNCHANGED <<configVars, ingressVars, sendVars, replaceVars, connectVars>>

(***************************************************************************)
(* replace_usernames                                                       *)
(***************************************************************************)
\* A text is the sequence of its tokens: "<@", "|" and ">" stand for
\* themselves, a user id is a run of [A-Z0-9], and every other token (a
\* word, a hint, a display name) is a run of other characters.
WordSegment == [kind |-> "word", id |-> ""]

Mention(u) == [kind |-> "mention", id |-> u]

HintedMention(u) == [kind |-> "hinted", id |-> u]

Segments ==
    {WordSegment} \cup {Mention(u) : u \in UserIds}
        \cup {HintedMention(u) : u \in UserIds}

\* the tokens of a segment: hello, <@U1>, <@U1|bob>
SegmentTokens(g) ==
    CASE g.kind = "word" -> <<"hello">>
      [] g.kind = "mention" -> <<"<@", g.id, ">">>
      [] g.kind = "hinted" -> <<"<@", g.id, "|", "bob", ">">>

RECURSIVE Flatten(_)
Flatten(segs) ==
    IF segs = <<>> THEN <<>>
    ELSE SegmentTokens(Head(segs)) \o Flatten(Tail(segs))

\* the texts replace_usernames is given
SegmentTexts == UNION {[1..n -> Segments] : n \in 0..MaxSegments}

SetMax(S) == CHOOSE x \in S : \A y \in S : y <= x

\* Where a match of \<\@([A-Z0-9]+)(?:\|.+)?\> that starts at token i ends,
\* or 0 if there is none: "<@", an id, then either "|", one or more
\* characters and ">" (.+ is greedy: it runs to the last ">" of the text),
\* or ">" at once.
MatchEnd(text, i) ==
    IF i + 2 > Len(text) \/ text[i] # "<@" \/ text[i + 1] \notin UserIds
    THEN 0
    ELSE IF text[i + 2] = "|"
    THEN LET ends == {j \in (i + 4)..Len(text) : text[j] = ">"}
         IN  IF ends = {} THEN 0 ELSE SetMax(ends)
    ELSE IF text[i + 2] = ">" THEN i + 2
    ELSE 0

RECURSIVE FindAllFrom(_, _)
FindAllFrom(text, i) ==
    IF i > Len(text) THEN <<>>
    ELSE IF MatchEnd(text, i) = 0 THEN FindAllFrom(text, i + 1)
    ELSE <<text[i + 1]>> \o FindAllFrom(text, MatchEnd(text, i) + 1)

\* re.search in place of re.findall: the first match only
FindFirst(text) ==
    IF FindAllFrom(text, 1) = <<>> THEN <<>> ELSE <<Head(FindAllFrom(text, 1))>>

\* re.findall(r"\<\@([A-Z0-9]+)(?:\|.+)?\>", message): the ids of the
\* matches, left to right
FindAll(text) == FindAllFrom(text, 1)

RECURSIVE ReplaceFrom(_, _, _, _)
ReplaceFrom(text, i, old, new) ==
    IF i > Len(text) THEN <<>>
    ELSE IF i + Len(old) - 1 <= Len(text)
            /\ SubSeq(text, i, i + Len(old) - 1) = old
    THEN new \o ReplaceFrom(text, i + Len(old), old, new)
    ELSE <<text[i]>> \o ReplaceFrom(text, i + 1, old, new)

\* str.replace(old, new): every occurrence, left to right
StrReplace(text, old, new) == ReplaceFrom(text, 1, old, new)

\* "<@{userid}>".format(userid=userid)
MentionToken(userid) == <<"<@", userid, ">">>

NoReplaceResult == [kind |-> "none", text |-> <<>>, error |-> ""]

ReplaceReturned(text) == [kind |-> "returned", text |-> text, error |-> ""]

ReplaceRaised(err) == [kind |-> "raised", text |-> <<>>, error |-> err]

\* LoopBody with the lookup wrapped in try/except: pass
LoopBodySkipFailed(msg, userid, res) ==
    IF res.kind = "raised"
    THEN [raised |-> FALSE, error |-> "", text |-> msg]
    ELSE IF ~res.value.isDict
    THEN [raised |-> TRUE, error |-> "TypeError", text |-> msg]
    ELSE IF "name" \notin DOMAIN res.value.dict
    THEN [raised |-> TRUE, error |-> "KeyError", text |-> msg]
    ELSE [raised |-> FALSE, error |-> "",
          text |-> StrReplace(msg, MentionToken(userid),
                                 <<res.value.dict["name"]>>)]

\* One turn of the for loop once lookup_username is over with res: the
\* lookup's exception goes on; user_info["name"] fails on a value that is
\* no dict or has no "name"; else the mention token is replaced.
LoopBody(msg, userid, res) ==
    IF res.kind = "raised"
    THEN [raised |-> TRUE, error |-> res.error, text |-> msg]
    ELSE IF ~res.value.isDict
    THEN [raised |-> TRUE, error |-> "TypeError", text |-> msg]
    ELSE IF "name" \notin DOMAIN res.value.dict
    THEN [raised |-> TRUE, error |-> "KeyError", text |-> msg]
    ELSE [raised |-> FALSE, error |-> "",
          text |-> StrReplace(msg, MentionToken(userid),
                                 <<res.value.dict["name"]>>)]

\* replace_usernames is called with a text: userids = re.findall(...)
ReplaceStart ==
    /\ rpc = "idle"
    /\ \E segs \in SegmentTexts :
        /\ rsegs' = segs
        /\ rmessage' = Flatten(segs)
        /\ userids' = FindAll(Flatten(segs))
    /\ ridx' = 1
    /\ rlookups' = <<>>
    /\ rfailed' = FALSE
    /\ rresult' = NoReplaceResult
    /\ rpc' = "loop"
    /\ UNCHANGED <<connVars, ingressVars, sendVars, lookupVars, connectVars>>

\* the next turn of the loop: lookup_username(userid) is called
ReplaceLookup ==
    /\ rpc = "loop"
    /\ ridx <= Len(userids)
    /\ LookupBegin("R", userids[ridx])
    /\ rlookups' = Append(rlookups, userids[ridx])
    /\ rpc' = "lookup"
    /\ UNCHANGED <<rsegs, rmessage, userids, ridx, rfailed, rresult>>
    /\ UNCHANGED <<configVars, ingressVars, sendVars, connectVars>>

\* the users_info call of the run's lookup returns
ReplaceUsersInfoReturn ==
    /\ rpc = "lookup"
    /\ UsersInfoReturn("R")
    /\ UNCHANGED <<configVars, ingressVars, sendVars, replaceVars, connectVars>>

\* the users_info call of the run's lookup raises
ReplaceUsersInfoRaise ==
    /\ rpc = "lookup"
    /\ UsersInfoRaise("R")
    /\ UNCHANGED <<configVars, ingressVars, sendVars, replaceVars, connectVars>>

\* lookup_username is over: the rest of the turn
ReplaceSubstitute ==
    /\ rpc = "lookup"
    /\ lpc["R"] = "done"
    /\ LET b == LoopBody(rmessage, userids[ridx], lresult["R"]) IN
        /\ rfailed' = (rfailed \/ lresult["R"].kind = "raised")
        /\ IF b.raised
           THEN /\ rpc' = "done"
                /\ rresult' = ReplaceRaised(b.error)
                /\ UNCHANGED <<rmessage, ridx>>
           ELSE /\ rpc' = "loop"
                /\ rmessage' = b.text
                /\ ridx' = ridx + 1
                /\ UNCHANGED rresult
    /\ LookupReset("R")
    /\ UNCHANGED <<rsegs, userids, rlookups>>
    /\ UNCHANGED <<configVars, ingressVars, sendVars, connectVars>>

\* the loop is over: return message
ReplaceReturn ==
    /\ rpc = "loop"
    /\ ridx > Len(userids)
    /\ rpc' = "done"
    /\ rresult' = ReplaceReturned(rmessage)
    /\ UNCHANGED <<rsegs, rmessage, userids, ridx, rlookups, rfailed>>
    /\ UNCHANGED <<connVars, ingressVars, sendVars, lookupVars, connectVars>>

\* the run is over
ReplaceExit ==
    /\ rpc = "done"
    /\ rpc' = "idle"
    /\ rsegs' = <<>>
    /\ rmessage' = <<>>
    /\ userids' = <<>>
    /\ ridx' = 1
    /\ rlookups' = <<>>
    /\ rfailed' = FALSE
    /\ rresult' = NoReplaceResult
    /\ UNCHANGED <<connVars, ingressVars, sendVars, lookupVars, connectVars>>

(***************************************************************************)
(* connect: the startup handshake                                          *)
(***************************************************************************)
\* how many connect() calls a behaviour starts
MaxConnects == 2

\* a field __init__ leaves as None
NoneField == "None"

\* auth_info and user_info: None, or the .data of a platform response
NoData == [isNone |-> TRUE, data |-> EmptyDict]
Data(d) == [isNone |-> FALSE, data |-> d]

\* the .data of an auth.test response: with a "user_id", or without one
AuthTestData ==
    {[user_id |-> "B061F7JD2"], [user_id |-> "U01NK1K9L68"], [ok |-> "true"]}

\* the .data of a users.info response for the bot's own user: a profile
\* with a "bot_id", a profile without one, a user without a profile, and a
\* body without a user
SelfProfiles ==
    { [user |-> [profile |-> [bot_id |-> "B061F7JD2"]]],
      [user |-> [profile |-> [real_name |-> "opsdroid"]]],
      [user |-> [id |-> "B061F7JD2"]],
      [ok |-> "true"] }

\* what api_call can raise: SlackApiError for a response the platform
\* marks as failed, the transport's error when the request did not get
\* through
ConnectApiErrors == {"SlackApiError", "ClientConnectorError"}

\* "/connector/{}".format(self.name)
IngressRoute == "/connector/slack"

NoConnectResult == [kind |-> "none", error |-> ""]
ConnectReturned == [kind |-> "returned", error |-> ""]
ConnectRaised(err) == [kind |-> "raised", error |-> err]

\* user_info["user"]["profile"]["bot_id"] is there
HasBotId(d) ==
    /\ "user" \in DOMAIN d
    /\ "profile" \in DOMAIN d["user"]
    /\ "bot_id" \in DOMAIN d["user"]["profile"]

\* a step of connect(): a platform call with its user parameter, the
\* assignment of bot_id with the value stored, or the add_post call with
\* its path
Step(name, arg) == [step |-> name, arg |-> arg]

\* UsersInfoParams that names one fixed user
UsersInfoParamsFixed(auth) == "B061F7JD2"

\* params={"user": self.auth_info["user_id"]}
UsersInfoParams(auth) == auth["user_id"]

\* except SlackApiError as error: log it and fall off the end of connect();
\* an exception of any other class is not caught
ConnectExcept(err) ==
    IF err = "SlackApiError" THEN ConnectReturned ELSE ConnectRaised(err)

\* connect() is called and awaits api_call("auth.test")
Connect ==
    /\ cpc = "idle"
    /\ connects < MaxConnects
    /\ connects' = connects + 1
    /\ cpc' = "auth_test"
    /\ connectResult' = NoConnectResult
    /\ connectLog' = <<Step("auth.test", "")>>
    /\ UNCHANGED <<routes, connected>>
    /\ UNCHANGED <<connVars, ingressVars, sendVars, lookupVars, replaceVars>>

\* auth.test answers: self.auth_info = (...).data, then the params of the
\* users.info call are built from self.auth_info["user_id"] (a KeyError
\* when the key is missing) and the call is awaited
AuthTestReturn ==
    /\ cpc = "auth_test"
    /\ \E d \in AuthTestData :
          /\ auth_info' = Data(d)
          /\ IF "user_id" \in DOMAIN d
             THEN /\ cpc' = "users_info"
                  /\ connectLog' =
                        Append(connectLog,
                               Step("users.info", UsersInfoParams(d)))
                  /\ UNCHANGED connectResult
             ELSE /\ cpc' = "done"
                  /\ connectResult' = ConnectExcept("KeyError")
                  /\ UNCHANGED connectLog
    /\ UNCHANGED <<routes, connected, connects>>
    /\ UNCHANGED <<default_target, icon_emoji, start_thread, bot_name,
                   user_info, bot_id, known_users>>
    /\ UNCHANGED <<ingressVars, sendVars, lookupVars, replaceVars>>

\* auth.test raises
AuthTestRaise ==
    /\ cpc = "auth_test"
    /\ \E err \in ConnectApiErrors :
          connectResult' = ConnectExcept(err)
    /\ cpc' = "done"
    /\ UNCHANGED <<routes, connected, connects, connectLog>>
    /\ UNCHANGED <<connVars, ingressVars, sendVars, lookupVars, replaceVars>>

\* users.info answers: self.user_info = (...).data, then
\* self.bot_id = self.user_info["user"]["profile"]["bot_id"] (a KeyError
\* when a key is missing), then router.add_post(route, handler), which the
\* router accepts or refuses with a RuntimeError
SelfInfoReturn ==
    /\ cpc = "users_info"
    /\ \E d \in SelfProfiles, accepted \in BOOLEAN :
          /\ user_info' = Data(d)
          /\ IF ~HasBotId(d)
             THEN /\ connectResult' = ConnectExcept("KeyError")
                  /\ UNCHANGED <<bot_id, routes, connected, connectLog>>
             ELSE /\ bot_id' = d["user"]["profile"]["bot_id"]
                  /\ connectLog' =
                        connectLog \o
                            <<Step("bot_id", d["user"]["profile"]["bot_id"]),
                              Step("add_post", IngressRoute)>>
                  /\ IF accepted
                     THEN /\ routes' = Append(routes, IngressRoute)
                          /\ connected' = TRUE
                          /\ connectResult' = ConnectReturned
                     ELSE /\ connectResult' = ConnectExcept("RuntimeError")
                          /\ UNCHANGED <<routes, connected>>
    /\ cpc' = "done"
    /\ UNCHANGED connects
    /\ UNCHANGED <<default_target, icon_emoji, start_thread, bot_name,
                   auth_info, known_users>>
    /\ UNCHANGED <<ingressVars, sendVars, lookupVars, replaceVars>>

\* users.info raises
SelfInfoRaise ==
    /\ cpc = "users_info"
    /\ \E err \in ConnectApiErrors :
          connectResult' = ConnectExcept(err)
    /\ cpc' = "done"
    /\ UNCHANGED <<routes, connected, connects, connectLog>>
    /\ UNCHANGED <<connVars, ingressVars, sendVars, lookupVars, replaceVars>>

\* the caller has the outcome; connect() can be called again
ConnectExit ==
    /\ cpc = "done"
    /\ cpc' = "idle"
    /\ UNCHANGED <<connectResult, routes, connected, connects, connectLog>>
    /\ UNCHANGED <<connVars, ingressVars, sendVars, lookupVars, replaceVars>>

(***************************************************************************)
(* Specifications                                                          *)
(***************************************************************************)

\* ConnectorSlack.__init__ with a configuration: the thread-start policy is
\* the configuration's start_thread (default False)
Init ==
    /\ default_target = "#general"
    /\ icon_emoji = ":robot_face:"
    /\ start_thread \in BOOLEAN
    /\ bot_name = "opsdroid"
    /\ auth_info = NoData
    /\ user_info = NoData
    /\ bot_id = NoneField
    /\ known_users = EmptyDict
    /\ hpc = "idle"
    /\ request = NoRequest
    /\ payload = EmptyPayload
    /\ event = NoneValue
    /\ idx = 1
    /\ createCalls = <<>>
    /\ parseCalls = <<>>
    /\ response = NoResponse
    /\ spc = "idle"
    /\ sendEvent = NoOutEvent
    /\ apiCalls = <<>>
    /\ apiError = NoError
    /\ sendResult = NoSendResult
    /\ lpc = [p \in Procs |-> "idle"]
    /\ luser = [p \in Procs |-> ""]
    /\ lnet = [p \in Procs |-> FALSE]
    /\ lfetched = [p \in Procs |-> NotADict]
    /\ lresult = [p \in Procs |-> NoLookupResult]
    /\ lcalls = [p \in Procs |-> <<>>]
    /\ lastWrite = EmptyDict
    /\ resolved = {}
    /\ rpc = "idle"
    /\ rsegs = <<>>
    /\ rmessage = <<>>
    /\ userids = <<>>
    /\ ridx = 1
    /\ rlookups = <<>>
    /\ rfailed = FALSE
    /\ rresult = NoReplaceResult
    /\ cpc = "idle"
    /\ connectResult = NoConnectResult
    /\ routes = <<>>
    /\ connected = FALSE
    /\ connects = 0
    /\ connectLog = <<>>

\* the webhook ingress handler alone
IngressNext ==
    \/ Receive
    \/ ReadBody
    \/ Classify
    \/ CreateReturn
    \/ CreateRaise
    \/ Forward
    \/ ParseReturn
    \/ ParseRaise
    \/ Acknowledge
    \/ HandlerExit

\* the outbound handlers alone
SendNext ==
    \/ Send
    \/ ApiReturn
    \/ ApiRaise
    \/ SendExit

\* the direct callers of lookup_username alone
LookupNext ==
    \/ Lookup
    \/ LookupUsersInfoReturn
    \/ LookupUsersInfoRaise
    \/ LookupExit

\* replace_usernames alone
ReplaceNext ==
    \/ ReplaceStart
    \/ ReplaceLookup
    \/ ReplaceUsersInfoReturn
    \/ ReplaceUsersInfoRaise
    \/ ReplaceSubstitute
    \/ ReplaceReturn
    \/ ReplaceExit

\* the startup handshake alone
ConnectNext ==
    \/ Connect
    \/ AuthTestReturn
    \/ AuthTestRaise
    \/ SelfInfoReturn
    \/ SelfInfoRaise
    \/ ConnectExit

Next ==
    \/ IngressNext
    \/ SendNext
    \/ LookupNext
    \/ ReplaceNext
    \/ ConnectNext

Spec == Init /\ [][Next]_vars

IngressSpec == Init /\ [][IngressNext]_vars

SendSpec == Init /\ [][SendNext]_vars

LookupSpec == Init /\ [][LookupNext]_vars

ReplaceSpec == Init /\ [][ReplaceNext]_vars

ConnectSpec == Init /\ [][ConnectNext]_vars

\* The connector after startup: the state a first connect() that went
\* through leaves (auth.test and users.info answered, bot_id stored, the
\* route registered), with nothing else run yet.
Started ==
    /\ default_target = "#general"
    /\ icon_emoji = ":robot_face:"
    /\ start_thread \in BOOLEAN
    /\ bot_name = "opsdroid"
    /\ auth_info = Data([user_id |-> "B061F7JD2"])
    /\ user_info = Data([user |-> [profile |-> [bot_id |-> "B061F7JD2"]]])
    /\ bot_id = "B061F7JD2"
    /\ known_users = EmptyDict
    /\ hpc = "idle"
    /\ request = NoRequest
    /\ payload = EmptyPayload
    /\ event = NoneValue
    /\ idx = 1
    /\ createCalls = <<>>
    /\ parseCalls = <<>>
    /\ response = NoResponse
    /\ spc = "idle"
    /\ sendEvent = NoOutEvent
    /\ apiCalls = <<>>
    /\ apiError = NoError
    /\ sendResult = NoSendResult
    /\ lpc = [p \in Procs |-> "idle"]
    /\ luser = [p \in Procs |-> ""]
    /\ lnet = [p \in Procs |-> FALSE]
    /\ lfetched = [p \in Procs |-> NotADict]
    /\ lresult = [p \in Procs |-> NoLookupResult]
    /\ lcalls = [p \in Procs |-> <<>>]
    /\ lastWrite = EmptyDict
    /\ resolved = {}
    /\ rpc = "idle"
    /\ rsegs = <<>>
    /\ rmessage = <<>>
    /\ userids = <<>>
    /\ ridx = 1
    /\ rlookups = <<>>
    /\ rfailed = FALSE
    /\ rresult = NoReplaceResult
    /\ cpc = "idle"
    /\ connectResult = ConnectReturned
    /\ routes = <<IngressRoute>>
    /\ connected = TRUE
    /\ connects = 1
    /\ connectLog = <<Step("auth.test", ""),
                      Step("users.info", "B061F7JD2"),
                      Step("bot_id", "B061F7JD2"),
                      Step("add_post", IngressRoute)>>

\* no operation of the connector is running
Quiet ==
    /\ hpc = "idle"
    /\ spc = "idle"
    /\ rpc = "idle"
    /\ \A p \in Procs : lpc[p] = "idle"

\* The started connector used by an application that awaits each operation
\* (an inbound request, a send, a replace_usernames) before the next one
\* starts, as the tests do; lookup_username calls of the two callers still
\* run concurrently with each other.
StartedNext ==
    \/ (hpc # "idle" \/ Quiet) /\ IngressNext
    \/ (spc # "idle" \/ Quiet) /\ SendNext
    \/ ((\E p \in Callers : lpc[p] # "idle") \/ Quiet) /\ LookupNext
    \/ (rpc # "idle" \/ Quiet) /\ ReplaceNext

StartedSpec == Started /\ [][StartedNext]_vars

\* The event loop runs every step of the handler that is ready, and
\* create_event, the connector's own code, comes back.  Nothing makes the
\* host finish an opsdroid.parse call: ParseReturn and ParseRaise are not
\* fair.
IngressLive ==
    /\ Init
    /\ [][IngressNext]_vars
    /\ WF_vars(ReadBody)
    /\ WF_vars(Classify)
    /\ WF_vars(CreateReturn \/ CreateRaise)
    /\ WF_vars(Forward)
    /\ WF_vars(Acknowledge)

(***************************************************************************)
(* Properties of slack_event_handler                                       *)
(***************************************************************************)
\* the run has returned the fixed acknowledgement: status 200, body the
\* JSON string "Received"
Acked ==
    /\ response.kind = "returned"
    /\ response.status = 200
    /\ response.body = [json |-> "string", obj |-> EmptyDict,
                        text |-> "Received"]

\* the value the request's body decodes to, when it does
Decodes(r) ==
    /\ r.text.wellformed
    /\ \/ r.content_type = "application/json"
       \/ r.content_type = "application/x-www-form-urlencoded"
          /\ r.hasPayloadField

\* the request carries a JSON object of the given type
HasType(r, t) ==
    /\ Decodes(r)
    /\ r.text.value.kind = "object"
    /\ "type" \in DOMAIN r.text.value.obj
    /\ r.text.value.obj["type"] = t

\* C1: when the Event Creator returns a list of n events, opsdroid.parse is
\* called n times and the i-th call receives the i-th element of the list,
\* a single event.
C1_ListForwardedElementwise ==
    (hpc = "done" /\ Acked /\ event.kind = "list") =>
        /\ Len(parseCalls) = Len(event.items)
        /\ \A i \in 1..Len(parseCalls) :
              parseCalls[i] = OneEvent(event.items[i])

\* C2: a run that got as far as calling the Event Creator (so its request is
\* no verification challenge, and all that can still fail is create_event
\* or opsdroid.parse) ends with the fixed acknowledgement.
C2_AckDespiteFailure ==
    (hpc = "done" /\ createCalls # <<>>) => Acked

\* a required field is missing: a form without "payload", an event_callback
\* without "event", a url_verification without "challenge"
MissingRequiredField(r) ==
    \/ r.content_type = "application/x-www-form-urlencoded"
       /\ ~r.hasPayloadField
    \/ HasType(r, "event_callback") /\ "event" \notin DOMAIN r.text.value.obj
    \/ HasType(r, "url_verification")
       /\ "challenge" \notin DOMAIN r.text.value.obj

\* C3: a request with a missing required field forwards no event and is
\* answered successfully (a returned response of status 200).
C3_MalformedPayloadAcknowledged ==
    (hpc = "done" /\ MissingRequiredField(request)) =>
        /\ parseCalls = <<>>
        /\ response.kind = "returned"
        /\ response.status = 200

\* the payload is a verification challenge: type url_verification, with a
\* challenge
IsChallenge(p) ==
    /\ p.kind = "object"
    /\ "type" \in DOMAIN p.obj
    /\ p.obj["type"] = "url_verification"
    /\ "challenge" \in DOMAIN p.obj

\* C4: for a url_verification payload with challenge c the handler never
\* calls create_event or opsdroid.parse, and what it returns is the JSON
\* response {"challenge": c}.
C4_ChallengeEchoed ==
    IsChallenge(payload) =>
        /\ createCalls = <<>>
        /\ parseCalls = <<>>
        /\ hpc \in {"classify", "done"}
        /\ hpc = "done" =>
              /\ response.kind = "returned"
              /\ response.status = 200
              /\ response.body =
                    [json |-> "object",
                     obj |-> [challenge |-> payload.obj["challenge"]],
                     text |-> ""]

\* C4 witness: a JSON request with challenge "xyz" has been answered
C4_Witness ==
    /\ hpc = "done"
    /\ IsChallenge(payload)
    /\ payload.obj["challenge"] = "xyz"
    /\ response.kind = "returned"
    /\ request.content_type = "application/json"

RecognizedTypes ==
    {"url_verification", "event_callback", "block_actions", "message_action",
     "view_submission", "view_closed"}

\* the request carries no recognized discriminant: its content type is none
\* of the two supported ones (the payload stays empty), or its body is a
\* JSON object without "type" or with a type that is not handled
NoRecognizedDiscriminant(r) ==
    \/ r.content_type \notin
           {"application/x-www-form-urlencoded", "application/json"}
    \/ /\ Decodes(r)
       /\ r.text.value.kind = "object"
       /\ \/ "type" \notin DOMAIN r.text.value.obj
          \/ r.text.value.obj["type"] \notin RecognizedTypes

\* C5: a request without a recognized discriminant causes no create_event
\* call and no opsdroid.parse call, and is answered with the fixed
\* acknowledgement.
C5_UnrecognizedIsNoOp ==
    (hpc # "idle" /\ NoRecognizedDiscriminant(request)) =>
        /\ createCalls = <<>>
        /\ parseCalls = <<>>
        /\ hpc \in {"read", "classify", "forward", "done"}
        /\ hpc = "done" => Acked

\* C5 witness: a request of the unhandled type app_rate_limited has been
\* acknowledged without any create_event call
C5_Witness ==
    /\ hpc = "done"
    /\ HasType(request, "app_rate_limited")
    /\ Acked
    /\ createCalls = <<>>

\* C6: a run that is waiting for an opsdroid.parse call returns (with any
\* outcome) whether or not the host ever finishes that call.
C6_ReturnsWithoutParse == (hpc = "parsing") ~> (hpc = "done")

(***************************************************************************)
(* Properties of the outbound handlers                                     *)
(***************************************************************************)
\* a Message has been sent and its handler has got to its platform call or
\* past it
MessageSent ==
    /\ spc \in {"awaiting", "done"}
    /\ sendEvent.variant = "Message"

\* the linked event's raw payload carries a thread marker
HasThreadMarker(l) ==
    /\ l.kind = "event"
    /\ l.raw_event.isDict
    /\ "thread_ts" \in DOMAIN l.raw_event.dict

\* rule (a) applies: a thread marker that differs from the event's own id
InsideThread(l) ==
    /\ HasThreadMarker(l)
    /\ l.raw_event.dict["thread_ts"] # l.event_id

\* the one call made is chat.postMessage
PostedOnce ==
    /\ Len(apiCalls) = 1
    /\ apiCalls[1].op = "chat.postMessage"

\* C7: for a Message whose linked event carries a thread marker different
\* from its own id, the chat.postMessage call's thread_ts is that marker,
\* with the thread-start policy on or off.
C7_ExistingThreadPropagated ==
    (MessageSent /\ InsideThread(sendEvent.linked_event)) =>
        /\ PostedOnce
        /\ "thread_ts" \in DOMAIN apiCalls[1].data
        /\ apiCalls[1].data["thread_ts"] =
              sendEvent.linked_event.raw_event.dict["thread_ts"]

\* C7 witness: policy on, linked event t1 inside the thread t2, posted with
\* thread_ts t2
C7_Witness ==
    /\ MessageSent
    /\ InsideThread(sendEvent.linked_event)
    /\ start_thread
    /\ sendEvent.linked_event.event_id = "t1"
    /\ apiCalls[1].data["thread_ts"] = "t2"

\* C8: for a Message with a linked event to which rule (a) does not apply
\* (a raw payload without thread marker, or with a marker equal to the
\* event's own id), with the thread-start policy on, the chat.postMessage
\* call's thread_ts is the linked event's own id.
C8_ThreadStartedByPolicy ==
    (/\ MessageSent
     /\ sendEvent.linked_event.kind = "event"
     /\ sendEvent.linked_event.raw_event.isDict
     /\ ~InsideThread(sendEvent.linked_event)
     /\ start_thread) =>
        /\ PostedOnce
        /\ "thread_ts" \in DOMAIN apiCalls[1].data
        /\ apiCalls[1].data["thread_ts"] = sendEvent.linked_event.event_id

C10_InvalidNameSwallowed ==
    (/\ spc = "done"
     /\ sendEvent.variant = "Reaction"
     /\ apiError # NoError) =>
        IF apiError.class = "SlackApiError" /\ apiError.code = "invalid_name"
        THEN sendResult.kind = "returned"
        ELSE sendResult.kind = "raised" /\ sendResult.error = apiError

\* C10 witness: reactions.add was called and failed with invalid_name, and
\* send_reaction returned
C10_Witness ==
    /\ spc = "done"
    /\ sendEvent.variant = "Reaction"
    /\ apiError = [class |-> "SlackApiError", code |-> "invalid_name"]
    /\ sendResult.kind = "returned"
    /\ apiCalls[1].op = "reactions.add"

\* the operation the claim names for each variant
DeclaredOperation ==
    [v \in Variants |->
        CASE v = "Message" -> "chat.postMessage"
          [] v = "EditedMessage" -> "chat.update"
          [] v = "Blocks" -> "chat.postMessage"
          [] v = "EditedBlocks" -> "chat.update"
          [] v = "Reaction" -> "reactions.add"
          [] v = "NewRoom" -> "conversations.create"
          [] v = "RoomName" -> "conversations.rename"
          [] v = "JoinRoom" -> "conversations.join"
          [] v = "UserInvite" -> "conversations.invite"
          [] v = "RoomDescription" -> "conversations.setTopic"
          [] v = "PinMessage" -> "pins.add"
          [] v = "UnpinMessage" -> "pins.remove"]

\* an event has been sent and its handler has got to its platform call,
\* or has ended
EventSent ==
    /\ spc \in {"awaiting", "done"}
    /\ sendEvent.variant \in Variants

\* C18: the handlers are registered for exactly the declared variants, one
\* handler per variant and no variant twice, and the handler of a sent
\* event makes exactly one platform call, to the operation declared for
\* the event's variant.
C18_DispatchIsFunction ==
    /\ {Registry[i].variant : i \in 1..Len(Registry)} = Variants
    /\ Len(Registry) = Cardinality(Variants)
    /\ \A v \in Variants : Cardinality(HandlersFor(v)) = 1
    /\ EventSent =>
          /\ Len(apiCalls) = 1
          /\ apiCalls[1].op = DeclaredOperation[sendEvent.variant]

\* C19: a platform call that failed is raised to the sender of the event,
\* as the error it failed with, unless it is the reactions.add call of a
\* Reaction failing with invalid_name; a platform call that succeeded has
\* its response returned.
C19_FailuresPropagate ==
    (spc = "done" /\ Len(apiCalls) = 1) =>
        IF apiError = NoError
        THEN sendResult = Returned("response")
        ELSE \/ sendResult = SendRaised(apiError)
             \/ /\ sendEvent.variant = "Reaction"
                /\ apiError.class = "SlackApiError"
                /\ apiError.code = "invalid_name"

\* C19 witness: conversations.create failed with invalid_name, and the
\* error was raised to the sender
C19_Witness ==
    /\ spc = "done"
    /\ sendEvent.variant = "NewRoom"
    /\ apiCalls[1].op = "conversations.create"
    /\ apiError = [class |-> "SlackApiError", code |-> "invalid_name"]
    /\ sendResult = SendRaised(apiError)

(***************************************************************************)
(* Properties of the Identity Cache                                        *)
(***************************************************************************)
\* C11: once a lookup_username call for an identifier has returned a
\* profile record, every lookup_username call for that identifier that
\* starts later makes no users_info call and returns, at once, the profile
\* the cache holds.
C11_CachedLookupNoNetwork ==
    [][\A p \in Procs :
          (lpc[p] = "idle" /\ lpc'[p] # "idle" /\ luser'[p] \in resolved) =>
              /\ lpc'[p] = "done"
              /\ ~lnet'[p]
              /\ luser'[p] \in DOMAIN known_users
              /\ lresult'[p] = LookupReturned(known_users[luser'[p]])]_vars

\* C11 witness: a caller got a profile for U1 from the cache, without a
\* users_info call, while the other caller still holds the profile its own
\* users_info call returned for U1
C11_Witness ==
    /\ lpc["L2"] = "done"
    /\ luser["L2"] = "U1"
    /\ ~lnet["L2"]
    /\ lresult["L2"].kind = "returned"
    /\ lpc["L1"] = "done"
    /\ luser["L1"] = "U1"
    /\ lnet["L1"]
    /\ lresult["L2"] = lresult["L1"]

\* C12: an identifier that is in the cache stays in it, mapped to the same
\* value: no step removes an entry or replaces its value.
C12_CacheNeverReplaced ==
    [][\A u \in DOMAIN known_users :
          /\ u \in DOMAIN known_users'
          /\ known_users'[u] = known_users[u]]_vars

\* C12, amended: an identifier that is in the cache stays in it, and its
\* value is replaced only by the return of a users_info call that a
\* lookup_username run for the same identifier made on a miss (the run
\* missed before the entry was stored); the new value is that run's result.
C12_CacheOnlyOverwrittenByPendingMiss ==
    [][\A u \in DOMAIN known_users :
          /\ u \in DOMAIN known_users'
          /\ known_users'[u] # known_users[u] =>
                \E p \in Procs :
                    /\ lpc[p] = "awaiting"
                    /\ luser[p] = u
                    /\ lnet[p]
                    /\ lpc'[p] = "done"
                    /\ lresult'[p] = LookupReturned(known_users'[u])]_vars

\* C12 witness: L1 and L2 both missed U1; L1's result was stored and then
\* replaced by L2's, a different profile
C12_Witness ==
    /\ lpc["L1"] = "done" /\ lpc["L2"] = "done"
    /\ luser["L1"] = "U1" /\ luser["L2"] = "U1"
    /\ lnet["L1"] /\ lnet["L2"]
    /\ lfetched["L1"].isDict /\ lfetched["L2"].isDict
    /\ lfetched["L1"] # lfetched["L2"]
    /\ "U1" \in DOMAIN known_users
    /\ known_users["U1"] = lfetched["L2"]

\* two callers have both missed the same identifier, both called users_info
\* and both got a profile record back
BothMissed(p, q) ==
    /\ p # q
    /\ lpc[p] = "done" /\ lpc[q] = "done"
    /\ luser[p] = luser[q]
    /\ lnet[p] /\ lnet[q]
    /\ lfetched[p].isDict /\ lfetched[q].isDict

\* C20: when two callers have both missed the same identifier and both
\* lookups have returned, the cache holds for the identifier the result
\* that was written last, one of the two, and each caller has the result of
\* its own users_info call.
C20_ConcurrentMissesLastWriteWins ==
    \A p, q \in Callers :
        BothMissed(p, q) =>
            /\ luser[p] \in DOMAIN known_users
            /\ known_users[luser[p]] = lastWrite[luser[p]]
            /\ known_users[luser[p]] \in {lfetched[p], lfetched[q]}
            /\ lresult[p] = LookupReturned(lfetched[p])
            /\ lresult[q] = LookupReturned(lfetched[q])

\* C20 witness: both callers missed U1 and made their own users_info call;
\* L2 got "Test User", L1 got "Renamed User" and wrote last
C20_Witness ==
    /\ BothMissed("L1", "L2")
    /\ luser["L1"] = "U1"
    /\ lfetched["L2"] = UserInfo([id |-> "U1", name |-> "Test User"])
    /\ lfetched["L1"] = UserInfo([id |-> "U1", name |-> "Renamed User"])
    /\ known_users["U1"] = lfetched["L1"]
    /\ lastWrite["U1"] = lfetched["L1"]

\* C21: a lookup_username run that misses the cache makes exactly one
\* users_info call, for its identifier; when the call returns a dict, the
\* run's last step stores it under the identifier and changes nothing else
\* in the cache; when the call raises or returns something that is no
\* dict, no step of the run changes the cache.
C21_MissStoresOnlyProfiles ==
    [][\A p \in Procs :
          /\ (lpc[p] = "idle" /\ lpc'[p] = "awaiting") =>
                /\ lcalls'[p] = <<luser'[p]>>
                /\ known_users' = known_users
          /\ (lpc[p] = "awaiting" /\ lpc'[p] = "done") =>
                /\ lcalls'[p] = <<luser[p]>>
                /\ IF lresult'[p].kind = "returned"
                      /\ lresult'[p].value.isDict
                   THEN known_users' =
                           DictSet(known_users, luser[p], lresult'[p].value)
                   ELSE known_users' = known_users]_vars

\* C21 witness: L1 missed U1, its one users_info call returned something
\* that is no dict, and U1 is still not in the cache, which holds U2
C21_Witness ==
    /\ lpc["L1"] = "done"
    /\ luser["L1"] = "U1"
    /\ lcalls["L1"] = <<"U1">>
    /\ lresult["L1"] = LookupReturned(NotADict)
    /\ DOMAIN known_users = {"U2"}

(***************************************************************************)
(* Properties of replace_usernames                                         *)
(***************************************************************************)
\* C13: the text replace_usernames returns holds no mention token, plain
\* or with a hint, of an identifier that was matched and resolved.
C13_EveryMentionReplaced ==
    (rpc = "done" /\ rresult.kind = "returned") =>
        \A i \in 1..(Len(rresult.text) - 1) :
            ~(/\ rresult.text[i] = "<@"
              /\ \E k \in 1..Len(userids) : rresult.text[i + 1] = userids[k])

\* the text has no mention with a hint
PlainOnly(segs) == \A i \in 1..Len(segs) : segs[i].kind # "hinted"

\* the text has no mention at all
NoMentions(segs) == \A i \in 1..Len(segs) : segs[i].kind = "word"

\* the display name the cache holds for u
CachedName(u) ==
    IF u \in DOMAIN known_users /\ "name" \in DOMAIN known_users[u].dict
    THEN known_users[u].dict["name"]
    ELSE "(no name)"

\* the text with every plain mention replaced by its identifier's name
RECURSIVE ExpectedText(_)
ExpectedText(segs) ==
    IF segs = <<>> THEN <<>>
    ELSE (IF Head(segs).kind = "mention"
          THEN <<CachedName(Head(segs).id)>>
          ELSE SegmentTokens(Head(segs))) \o ExpectedText(Tail(segs))

\* C14: on a text without mentions replace_usernames returns the text as
\* it is and looks nothing up; on a text whose mentions are all plain, the
\* text it returns has each mention replaced by its own identifier's name
\* and is otherwise the text given.
C14_PlainMentionsReplaced ==
    (rpc = "done" /\ PlainOnly(rsegs)) =>
        /\ NoMentions(rsegs) =>
              /\ rresult = ReplaceReturned(Flatten(rsegs))
              /\ rlookups = <<>>
        /\ rresult.kind = "returned" =>
              rresult.text = ExpectedText(rsegs)

\* C14 witness: "<@U1><@U2>" came back as the two users' names
C14_Witness ==
    /\ rpc = "done"
    /\ rsegs = <<Mention("U1"), Mention("U2")>>
    /\ rresult = ReplaceReturned(<<"Test User", "Other User">>)
    /\ rlookups = <<"U1", "U2">>

\* C15: when a lookup made by replace_usernames has raised, the run ends
\* with an error and returns no text.
C15_FailedLookupAborts ==
    (rpc = "done" /\ rfailed) =>
        /\ rresult.kind = "raised"
        /\ rresult.text = <<>>

\* C15 witness: the first mention was substituted, the lookup of the second
\* raised, and the run ended with that error
C15_Witness ==
    /\ rpc = "done"
    /\ rfailed
    /\ ridx = 2
    /\ rmessage # Flatten(rsegs)
    /\ rresult.kind = "raised"
    /\ rresult.error = "SlackApiError"

(***************************************************************************)
(* Properties of connect                                                   *)
(***************************************************************************)
\* C16: connect() never propagates an error to its caller: every finished
\* connect() has returned.
C16_ConnectNeverRaises ==
    cpc = "done" => connectResult.kind = "returned"

\* C17: while no connect() is running and none has completed successfully,
\* auth_info, user_info and bot_id are all unset.
C17_IdentityOnlyAfterHandshake ==
    (cpc \in {"idle", "done"} /\ ~connected) =>
        /\ auth_info.isNone
        /\ user_info.isNone
        /\ bot_id = NoneField

\* the order of the steps of connect()
StepOrder == <<"auth.test", "users.info", "bot_id", "add_post">>

\* the steps taken so far are the first steps of StepOrder, users.info was
\* called with the user id auth.test returned, and bot_id holds the value
\* taken from the users.info response
StepsInOrder ==
    /\ Len(connectLog) <= Len(StepOrder)
    /\ \A i \in 1..Len(connectLog) : connectLog[i].step = StepOrder[i]
    /\ Len(connectLog) >= 2 =>
          /\ ~auth_info.isNone
          /\ "user_id" \in DOMAIN auth_info.data
          /\ connectLog[2].arg = auth_info.data["user_id"]
    /\ Len(connectLog) >= 3 =>
          /\ ~user_info.isNone
          /\ HasBotId(user_info.data)
          /\ connectLog[3].arg = user_info.data["user"]["profile"]["bot_id"]
          /\ bot_id = connectLog[3].arg

\* C22: connect() takes its steps in the order auth.test, users.info (with
\* the user id auth.test returned), bot_id, add_post; a route is registered
\* only by the step of a connect() that has taken all four, with both
\* calls answered and bot_id stored, and that connect() returns; a
\* connect() that failed has registered nothing.
C22_ConnectStepsInOrder ==
    [][/\ StepsInOrder'
       /\ routes' # routes =>
             /\ routes' = Append(routes, IngressRoute)
             /\ cpc = "users_info" /\ cpc' = "done"
             /\ Len(connectLog') = Len(StepOrder)
             /\ connectLog'[Len(StepOrder)].arg = IngressRoute
             /\ connectResult' = ConnectReturned
       /\ (cpc' = "done" /\ connectResult' # ConnectReturned) =>
             routes' = routes
       /\ (cpc' = "done" /\ Len(connectLog') < Len(StepOrder)) =>
             routes' = routes]_vars

\* C22 witness: auth.test returned U01NK1K9L68, users.info was called for
\* that user, bot_id was stored and the route registered
C22_Witness ==
    /\ cpc = "done"
    /\ connectResult = ConnectReturned
    /\ connectLog = <<Step("auth.test", ""),
                      Step("users.info", "U01NK1K9L68"),
                      Step("bot_id", "B061F7JD2"),
                      Step("add_post", IngressRoute)>>
    /\ routes = <<IngressRoute>>
    /\ bot_id = "B061F7JD2"

(***************************************************************************)
(* Frame of the connector state after startup                              *)
(***************************************************************************)
\* C23: after startup no step changes auth_info, user_info, bot_id, the
\* default target, the icon, the bot name or the thread-start policy; the
\* steps of the webhook handler and of the outbound handlers leave
\* known_users unchanged as well; known_users is changed only by the step
\* of a lookup_username run (a caller's, or the one replace_usernames
\* made) that ends a miss, which stores what that run returns.
C23_OnlyLookupChangesState ==
    [][/\ configVars' = configVars
       /\ (ingressVars' # ingressVars \/ sendVars' # sendVars) =>
             known_users' = known_users
       /\ known_users' # known_users =>
             \E p \in Procs :
                 /\ lpc[p] = "awaiting" /\ lpc'[p] = "done"
                 /\ lresult'[p].kind = "returned"
                 /\ luser[p] \in DOMAIN known_users'
                 /\ known_users'[luser[p]] = lresult'[p].value]_vars

\* C23 witness: with U1 and U2 in the cache, a request came in and its
\* event was handed to opsdroid.parse; the connector's fields are the ones
\* startup left and the cache still holds both users
C23_Witness ==
    /\ hpc = "done"
    /\ parseCalls # <<>>
    /\ response = Acknowledgement
    /\ DOMAIN known_users = {"U1", "U2"}
    /\ bot_id = "B061F7JD2"
    /\ ~auth_info.isNone
    /\ default_target = "#general"

====
